---- MODULE Spec2Model ----
(***************************************************************************)
(* Model of pympeg's filter-graph builder and command compiler             *)
(* (src/pympeg/_filter.py, src/pympeg/_util.py).                           *)
(*                                                                         *)
(* Strings are sequences of chunks.  A chunk is either one character of    *)
(* caller-supplied text ("a", ";", ...) or one literal fragment of a       *)
(* format string of the code (" -i ", " -map \"[", ...).  Concatenation    *)
(* and ''.join are sequence concatenation; str.replace(";", "") removes    *)
(* every ";" chunk.                                                        *)
(***************************************************************************)
EXTENDS Integers, Sequences, FiniteSets, TLC

VARIABLES graph, count, pc, last, graph0, count0,
          runGraph, command, proc, exitCode, commOut, commErr

vars == <<graph, count, pc, last, graph0, count0,
          runGraph, command, proc, exitCode, commOut, commErr>>

\* ------------------------------------------------------------------ bounds

\* Largest number of nodes the registry holds in the model.
MaxNodes == 3

\* ----------------------------------------------------------------- strings

NoStr == <<>>

RECURSIVE Join(_)
Join(ss) == IF ss = <<>> THEN <<>> ELSE Head(ss) \o Join(Tail(ss))

\* str.replace(old, ""), old a single character
ReplaceWithEmpty(str, old) == SelectSeq(str, LAMBDA c : c # old)

Digit(d) == <<"0", "1", "2", "3", "4", "5", "6", "7", "8", "9">>[d + 1]

RECURSIVE DecStr(_)
DecStr(n) == IF n < 10 THEN <<Digit(n)>>
             ELSE DecStr(n \div 10) \o <<Digit(n % 10)>>

RECURSIVE CountChunk(_, _)
CountChunk(str, c) ==
    IF str = <<>> THEN 0
    ELSE (IF Head(str) = c THEN 1 ELSE 0) + CountChunk(Tail(str), c)

RECURSIVE SumSeq(_)
SumSeq(ns) == IF ns = <<>> THEN 0 ELSE Head(ns) + SumSeq(Tail(ns))

\* ------------------------------------------------------------------- nodes

\* Every node is a record with the same fields; a variant leaves the fields
\* it does not have at their empty value.
MkNode(kind, name, index, tag, filter, params, args, inputs, outputs) ==
    [kind |-> kind, name |-> name, index |-> index, tag |-> tag,
     filter |-> filter, params |-> params, args |-> args,
     inputs |-> inputs, outputs |-> outputs]

InputNode(name, inp) ==
    MkNode("InputNode", name, inp, NoStr, NoStr, <<>>, NoStr, <<>>, <<>>)

FilterNode(filter_name, params, inputs, out) ==
    MkNode("FilterNode", NoStr, 0, NoStr, filter_name, params, NoStr, inputs, <<out>>)

OutputNode(name, inputs) ==
    MkNode("OutputNode", name, 0, NoStr, NoStr, <<>>, NoStr, inputs, <<>>)

GlobalNode(args, inputs, outputs) ==
    MkNode("GlobalNode", NoStr, 0, NoStr, NoStr, <<>>, args, inputs, outputs)

OptionNode(tag, name, outputs) ==
    MkNode("OptionNode", name, 0, tag, NoStr, <<>>, NoStr, <<>>, outputs)

\* InputNode.outputs: the input's index-based stream reference, e.g. 0:v
InputNodeOutputs(node) == DecStr(node.index) \o <<":", "v">>

\* "[l1][l2]..." for a list of labels
Bracketed(labels) ==
    Join([i \in 1..Len(labels) |-> <<"[">> \o labels[i] \o <<"]">>])

in_label(node) == Bracketed(node.inputs)

out_label(node) == Bracketed(node.outputs)

\* ---------------------------------------------------------------- _util.py

get_str_from_params(params) ==
    Join([i \in 1..Len(params) |->
            IF i = 1 THEN params[i][1] \o <<"=">> \o params[i][2]
            ELSE <<":">> \o params[i][1] \o <<"=">> \o params[i][2]])

get_str_from_filter(node) ==
    in_label(node) \o <<" ">> \o node.filter \o <<"=">>
        \o get_str_from_params(node.params) \o <<" ">> \o out_label(node) \o <<";">>

get_str_from_global(node) ==
    in_label(node) \o <<" ">> \o node.args \o <<" ">> \o out_label(node) \o <<";">>

\* ---------------------------------------------------------------- compiler

EmptyPartition ==
    [input_nodes |-> <<>>, option_nodes |-> <<>>, filter_nodes |-> <<>>,
     global_nodes |-> <<>>, output_nodes |-> <<>>]

\* one pass of the loop body of _get_nodes_from_graph
ClassifyNode(acc, node) ==
    LET a1 == IF node.kind = "InputNode"
              THEN [acc EXCEPT !.input_nodes = Append(@, node)] ELSE acc
        a2 == IF node.kind = "FilterNode"
              THEN [a1 EXCEPT !.filter_nodes = Append(@, node)] ELSE a1
        a3 == IF node.kind = "OutputNode"
              THEN [a2 EXCEPT !.output_nodes = Append(@, node)] ELSE a2
        a4 == IF node.kind = "GlobalNode"
              THEN [a3 EXCEPT !.global_nodes = Append(@, node)] ELSE a3
        a5 == IF node.kind = "OptionNode"
              THEN [a4 EXCEPT !.option_nodes = Append(@, node)] ELSE a4
    IN  a5

RECURSIVE NodesLoop(_, _, _)
NodesLoop(g, i, acc) ==
    IF i > Len(g) THEN acc ELSE NodesLoop(g, i + 1, ClassifyNode(acc, g[i]))

_get_nodes_from_graph(g) == NodesLoop(g, 1, EmptyPartition)

InputSegment(inp) == <<" -i ">> \o inp.name \o <<" ">>

OptionSegment(opt) == <<" ">> \o opt.tag \o <<" ">> \o opt.name

\* variant of MapSegments: the name is written once per OutputNode
MapSegmentsNameOnce(out) ==
    Join([j \in 1..Len(out.inputs) |-> <<" -map \"[">> \o out.inputs[j] \o <<"]\"">>])
        \o <<" ">> \o out.name \o <<" ">>

MapSegments(out) ==
    Join([j \in 1..Len(out.inputs) |->
            <<" -map \"[">> \o out.inputs[j] \o <<"]\"">>
                \o <<" ">> \o out.name \o <<" ">>])

\* variant of _no_filter_command: the overwrite flag follows the inputs, as
\* on the filter path
_no_filter_command_flag_late(input_nodes, output_nodes, cmd) ==
    Join(<< <<cmd>>,
            Join([i \in 1..Len(input_nodes) |-> <<" -i ">> \o input_nodes[i].name \o <<" ">>]),
            <<" -y">>,
            Join([i \in 1..Len(output_nodes) |->
                    <<" ">> \o output_nodes[i].name \o <<" ">>]) >>)

_no_filter_command(input_nodes, output_nodes, cmd) ==
    Join(<< <<cmd>>,
            <<" -y">>,
            Join([i \in 1..Len(input_nodes) |-> InputSegment(input_nodes[i])]),
            Join([i \in 1..Len(output_nodes) |->
                    <<" ">> \o output_nodes[i].name \o <<" ">>]) >>)

\* the statement of the popped last FilterNode
LastFilterStatement(last_filter_node) ==
    ReplaceWithEmpty(get_str_from_filter(last_filter_node), ";")

\* variant of FilterPathCommand: the GlobalNodes are written before the
\* FilterNodes
FilterPathCommandGlobalsFirst(p, cmd) ==
    LET n == Len(p.filter_nodes)
        last_filter_node == p.filter_nodes[n]
        filter_nodes == SubSeq(p.filter_nodes, 1, n - 1)
    IN  Join(<< <<cmd>>,
                Join([i \in 1..Len(p.input_nodes) |->
                        <<" -i ">> \o p.input_nodes[i].name \o <<" ">>]),
                Join([i \in 1..Len(p.option_nodes) |->
                        <<" ">> \o p.option_nodes[i].tag \o <<" ">> \o p.option_nodes[i].name]),
                <<" -y -filter_complex \"">>,
                Join([i \in 1..Len(p.global_nodes) |-> get_str_from_global(p.global_nodes[i])]),
                Join([i \in 1..Len(filter_nodes) |-> get_str_from_filter(filter_nodes[i])]),
                ReplaceWithEmpty(get_str_from_filter(last_filter_node), ";"),
                <<"\"">>,
                Join([i \in 1..Len(p.output_nodes) |->
                        Join([j \in 1..Len(p.output_nodes[i].inputs) |->
                                <<" -map \"[">> \o p.output_nodes[i].inputs[j] \o <<"]\"">>
                                    \o <<" ">> \o p.output_nodes[i].name \o <<" ">>])]) >>)

FilterPathCommand(p, cmd) ==
    LET n == Len(p.filter_nodes)
        last_filter_node == p.filter_nodes[n]
        filter_nodes == SubSeq(p.filter_nodes, 1, n - 1)
    IN  Join(<< <<cmd>>,
                Join([i \in 1..Len(p.input_nodes) |-> InputSegment(p.input_nodes[i])]),
                Join([i \in 1..Len(p.option_nodes) |-> OptionSegment(p.option_nodes[i])]),
                <<" -y -filter_complex \"">>,
                Join([i \in 1..Len(filter_nodes) |-> get_str_from_filter(filter_nodes[i])]),
                Join([i \in 1..Len(p.global_nodes) |-> get_str_from_global(p.global_nodes[i])]),
                LastFilterStatement(last_filter_node),
                <<"\"">>,
                Join([i \in 1..Len(p.output_nodes) |-> MapSegments(p.output_nodes[i])]) >>)

_get_command_from_graph(g, cmd) ==
    LET p == _get_nodes_from_graph(g)
    IN  IF Len(p.filter_nodes) = 0
        THEN _no_filter_command(p.input_nodes, p.output_nodes, cmd)
        ELSE FilterPathCommand(p, cmd)

\* ------------------------------------------------------- values of a call

\* A Python value handed to a builder call: its type, its text (a Label's or
\* a str's), the node it is (when a node), its elements (when a list).
NoNode == MkNode("None", NoStr, 0, NoStr, NoStr, <<>>, NoStr, <<>>, <<>>)

Val(t, lab) == [t |-> t, lab |-> lab, node |-> NoNode, items |-> <<>>]

NodeVal(node) == [t |-> node.kind, lab |-> NoStr, node |-> node, items |-> <<>>]

ListVal(items) == [t |-> "List", lab |-> NoStr, node |-> NoNode, items |-> items]

Absent == Val("Absent", NoStr)

NoneVal == Val("None", NoStr)

\* the positional tuple *args of a call made with this caller
PosArgs(caller) == IF caller.t = "Absent" THEN <<>> ELSE <<caller>>

_check_arg_type(args) ==
    IF Len(args) = 0 THEN FALSE
    ELSE args[1].t \in {"InputNode", "OptionNode", "FilterNode",
                        "GlobalNode", "Label", "List"}

\* [ok, label]: ok = FALSE stands for raise TypeMissing
_get_label_param(value) ==
    CASE value.t = "Label"      -> [ok |-> TRUE, label |-> value.lab]
      [] value.t = "Str"        -> [ok |-> TRUE, label |-> value.lab]
      [] value.t = "FilterNode" -> [ok |-> TRUE, label |-> value.node.outputs[1]]
      [] value.t = "InputNode"  -> [ok |-> TRUE, label |-> InputNodeOutputs(value.node)]
      [] value.t = "GlobalNode" -> [ok |-> TRUE, label |-> value.node.outputs[1]]
      [] OTHER                  -> [ok |-> FALSE, label |-> NoStr]

\* the loop "if isinstance(x, list): for e in x: add(_get_label_param(e))
\* else: add(_get_label_param(x))" of filter, output, arg and option
LabelResults(x) ==
    IF x.t = "List" THEN [i \in 1..Len(x.items) |-> _get_label_param(x.items[i])]
    ELSE <<_get_label_param(x)>>

AllOk(rs) == \A i \in 1..Len(rs) : rs[i].ok

LabelsOf(rs) == [i \in 1..Len(rs) |-> rs[i].label]

\* ---------------------------------------------------------------- registry

\* Stream.add: append the node to the registry's sequence
StreamAdd(g, node) == Append(g, node)

\* variant of input_node: the counter is incremented before the index is taken
input_node_preincrement(name, cnt) == InputNode(name, cnt + 1)

\* "node = InputNode(name, s.count)"
input_node(name, cnt) == InputNode(name, cnt)

\* "s.add(node).count += 1"
count_after_input(cnt) == cnt + 1

\* ------------------------------------------------------------- call records

Unset == [set |-> FALSE, val |-> <<>>]

IsSet(v) == [set |-> TRUE, val |-> v]

NoneBytes == [none |-> TRUE, data |-> <<>>]

Bytes(data) == [none |-> FALSE, data |-> data]

NoPayload == [prog |-> "", out |-> NoneBytes, err |-> NoneBytes]

\* what the last call was given; err is the exception it raised ("" when it
\* returned), at the place that raised it, payload the arguments of Error or
\* the pair run returned
Call(op, caller, inputs, outputs, name) ==
    [op |-> op, caller |-> caller, inputs |-> inputs, outputs |-> outputs,
     name |-> name, err |-> "", at |-> "", payload |-> NoPayload]

NoCall == Call("", Absent, Absent, Absent, Absent)

RunLocalsFresh ==
    /\ runGraph' = Unset
    /\ command' = Unset
    /\ proc' = "none"
    /\ exitCode' = 0
    /\ commOut' = NoneBytes
    /\ commErr' = NoneBytes

\* entry of a builder call: the single thread is not inside another call
Enter ==
    /\ pc = "idle"
    /\ pc' = pc
    /\ graph0' = graph
    /\ count0' = count
    /\ RunLocalsFresh

Raise(call, err, at) ==
    /\ last' = [call EXCEPT !.err = err, !.at = at]
    /\ UNCHANGED <<graph, count>>

\* s.add(node) of filter, output, arg and option, then return node
AddAndReturn(call, node) ==
    /\ Len(graph) < MaxNodes
    /\ graph' = StreamAdd(graph, node)
    /\ count' = count
    /\ last' = call

\* --------------------------------------------------------- builder actions

input(caller, name) ==
    /\ Enter
    /\ LET call == Call("input", caller, Absent, Absent, name)
       IN  IF name.t = "None"
           THEN Raise(call, "InputParamsMissing", "name")
           ELSE /\ Len(graph) < MaxNodes
                /\ graph' = StreamAdd(graph, input_node(name.lab, count))
                /\ count' = count_after_input(count)
                /\ last' = call

\* has_kwargs = FALSE is the call with no named argument at all
filter(caller, has_kwargs, inputs, filter_name, params, out) ==
    /\ Enter
    /\ LET call == Call("filter", caller, inputs, Absent, Absent)
           src  == IF inputs.t # "Absent" THEN inputs ELSE caller
           rs   == LabelResults(src)
       IN  IF ~_check_arg_type(PosArgs(caller))
           THEN Raise(call, "TypeMissing", "check")
           ELSE IF ~has_kwargs
           THEN Raise(call, "FilterParamsMissing", "kwargs")
           ELSE IF ~AllOk(rs)
           THEN Raise(call, "TypeMissing", "inputs")
           ELSE AddAndReturn(call, FilterNode(filter_name, params, LabelsOf(rs), out))

\* name.t = "Absent" is the call without name=
output(caller, name) ==
    /\ Enter
    /\ LET call == Call("output", caller, Absent, Absent, name)
           rs   == LabelResults(caller)
       IN  IF ~_check_arg_type(PosArgs(caller))
           THEN Raise(call, "TypeMissing", "check")
           ELSE IF name.t = "Absent"
           THEN /\ last' = call
                /\ UNCHANGED <<graph, count>>
           ELSE IF ~AllOk(rs)
           THEN Raise(call, "TypeMissing", "inputs")
           ELSE AddAndReturn(call, OutputNode(name.lab, LabelsOf(rs)))

\* caller, outputs and inputs default to None
arg(caller, args, outputs, inputs) ==
    /\ Enter
    /\ LET call == Call("arg", caller, inputs, outputs, Absent)
           src  == IF inputs.t # "None" THEN inputs ELSE caller
           rsI  == LabelResults(src)
           rsO  == LabelResults(outputs)
       IN  IF ~AllOk(rsI)
           THEN Raise(call, "TypeMissing", "inputs")
           ELSE IF ~AllOk(rsO)
           THEN Raise(call, "TypeMissing", "outputs")
           ELSE AddAndReturn(call, GlobalNode(args, LabelsOf(rsI), LabelsOf(rsO)))

\* output defaults to None
option(caller, tag, name, out) ==
    /\ Enter
    /\ LET call == Call("option", caller, Absent, out, Val("Str", name))
           rs   == LabelResults(out)
       IN  IF ~AllOk(rs)
           THEN Raise(call, "TypeMissing", "outputs")
           ELSE AddAndReturn(call, OptionNode(tag, name, LabelsOf(rs)))

\* -------------------------------------------------------------------- run

\* Stream.graph: the registry's sequence as it stands
StreamGraph(g) == g

ExitCodes == {0, 1}

ProcOutputs == {<<"o", "k">>, <<"e", "r", "r">>}

\* variant of run_check: only a missing caller (None) is rejected
run_check_none_only(caller) ==
    /\ pc = "idle"
    /\ graph0' = graph
    /\ count0' = count
    /\ RunLocalsFresh
    /\ LET call == Call("run", caller, Absent, Absent, Absent)
       IN  IF caller.t = "None"
           THEN /\ last' = [call EXCEPT !.err = "OutputNodeMissingInRun", !.at = "check"]
                /\ pc' = "idle"
           ELSE /\ last' = call
                /\ pc' = "run_graph"
    /\ UNCHANGED <<graph, count>>

\* "if not isinstance(caller, OutputNode): raise OutputNodeMissingInRun"
run_check(caller) ==
    /\ pc = "idle"
    /\ graph0' = graph
    /\ count0' = count
    /\ RunLocalsFresh
    /\ LET call == Call("run", caller, Absent, Absent, Absent)
       IN  IF caller.t # "OutputNode"
           THEN /\ last' = [call EXCEPT !.err = "OutputNodeMissingInRun", !.at = "check"]
                /\ pc' = "idle"
           ELSE /\ last' = call
                /\ pc' = "run_graph"
    /\ UNCHANGED <<graph, count>>

\* "graph = s.graph()"
run_graph ==
    /\ pc = "run_graph"
    /\ runGraph' = IsSet(StreamGraph(graph))
    /\ pc' = "run_compile"
    /\ UNCHANGED <<graph, count, last, graph0, count0, command, proc, exitCode,
                   commOut, commErr>>

\* the registry without its last FilterNode
WithoutLastFilter(g) ==
    IF \A i \in 1..Len(g) : g[i].kind # "FilterNode" THEN g
    ELSE LET m == CHOOSE i \in 1..Len(g) :
                      /\ g[i].kind = "FilterNode"
                      /\ \A j \in (i + 1)..Len(g) : g[j].kind # "FilterNode"
         IN  SubSeq(g, 1, m - 1) \o SubSeq(g, m + 1, Len(g))

\* variant of run_compile: the pop of the last FilterNode reaches the registry
run_compile_pops_registry ==
    /\ pc = "run_compile"
    /\ command' = IsSet(_get_command_from_graph(runGraph.val, "ffmpeg"))
    /\ graph' = WithoutLastFilter(graph)
    /\ pc' = "run_popen"
    /\ UNCHANGED <<count, last, graph0, count0, runGraph, proc, exitCode,
                   commOut, commErr>>

\* "command = _get_command_from_graph(graph)"
run_compile ==
    /\ pc = "run_compile"
    /\ command' = IsSet(_get_command_from_graph(runGraph.val, "ffmpeg"))
    /\ pc' = "run_popen"
    /\ UNCHANGED <<graph, count, last, graph0, count0, runGraph, proc, exitCode,
                   commOut, commErr>>

\* "process = Popen(args=command, stdout=PIPE, stderr=STDOUT, shell=True)"
run_popen ==
    /\ pc = "run_popen"
    /\ proc' = "running"
    /\ pc' = "run_communicate"
    /\ UNCHANGED <<graph, count, last, graph0, count0, runGraph, command, exitCode,
                   commOut, commErr>>

\* the external process terminates with some exit status
process_exit(code) ==
    /\ proc = "running"
    /\ proc' = "exited"
    /\ exitCode' = code
    /\ UNCHANGED <<graph, count, pc, last, graph0, count0, runGraph, command,
                   commOut, commErr>>

\* "out, err = process.communicate()": blocks until the process has exited;
\* stderr is redirected into stdout, so err is None
run_communicate(data) ==
    /\ pc = "run_communicate"
    /\ proc = "exited"
    /\ commOut' = Bytes(data)
    /\ commErr' = NoneBytes
    /\ pc' = "run_poll"
    /\ UNCHANGED <<graph, count, last, graph0, count0, runGraph, command, proc,
                   exitCode>>

\* "code = process.poll(); if code: raise Error('ffmpeg', out, err);
\*  return out, err"
run_poll ==
    /\ pc = "run_poll"
    /\ LET code == exitCode
       IN  IF code # 0
           THEN last' = [last EXCEPT !.err = "Error", !.at = "poll",
                           !.payload = [prog |-> "ffmpeg", out |-> commOut, err |-> commErr]]
           ELSE last' = [last EXCEPT
                           !.payload = [prog |-> "", out |-> commOut, err |-> commErr]]
    /\ pc' = "idle"
    /\ UNCHANGED <<graph, count, graph0, count0, runGraph, command, proc, exitCode,
                   commOut, commErr>>

\* -------------------------------------------------- inputs of the builders

StrX == Val("Str", <<"x">>)

LabelX == Val("Label", <<"x">>)

LabelY == Val("Label", <<"y">>)

IntVal == Val("Int", NoStr)

\* a node of the registry used as the caller of a chained call
\* (node.filter(...), node.output(...)): the node created last
NodeCallers(g) == IF g = <<>> THEN {} ELSE {NodeVal(g[Len(g)])}

\* any node of the registry, handed to run
NodeVals(g) == {NodeVal(g[i]) : i \in 1..Len(g)}

Callers(g) == {Absent, StrX, LabelX, ListVal(<<StrX, IntVal>>)} \cup NodeCallers(g)

InputNames == {NoneVal, Val("Str", <<"a">>)}

OutputNames == {Absent, Val("Str", <<"o">>)}

Params1 == << << <<"w">>, <<"1">> >> >>

Params2 == << << <<"w">>, <<"1", ";">> >>, << <<"h">>, <<"2">> >> >>

NoKwargs ==
    [has |-> FALSE, inputs |-> Absent, filter_name |-> NoStr, params |-> <<>>,
     out |-> NoStr]

FilterKwargs ==
    {NoKwargs} \cup
    {[has |-> TRUE, inputs |-> i, filter_name |-> <<"s">>, params |-> p, out |-> o] :
        i \in {Absent, ListVal(<<StrX>>)},
        p \in {Params1},
        o \in {<<"x">>}}

ArgOutputs == {NoneVal, ListVal(<<StrX>>), ListVal(<<LabelY, StrX>>)}

ArgInputs == {NoneVal, StrX}

OptionOutputs == {NoneVal, LabelY}

\* ----------------------------------------------------------- specification

Init ==
    /\ graph = <<>>
    /\ count = 0
    /\ pc = "idle"
    /\ last = NoCall
    /\ graph0 = <<>>
    /\ count0 = 0
    /\ runGraph = Unset
    /\ command = Unset
    /\ proc = "none"
    /\ exitCode = 0
    /\ commOut = NoneBytes
    /\ commErr = NoneBytes

Next ==
    \/ \E caller \in {Absent, IntVal}, name \in InputNames :
          input(caller, name)
    \/ \E caller \in Callers(graph), kw \in FilterKwargs :
          filter(caller, kw.has, kw.inputs, kw.filter_name, kw.params, kw.out)
    \/ \E caller \in Callers(graph), name \in OutputNames :
          output(caller, name)
    \/ \E caller \in {NoneVal, LabelX} \cup NodeCallers(graph), outputs \in ArgOutputs,
          inputs \in ArgInputs :
          arg(caller, <<"c">>, outputs, inputs)
    \/ \E caller \in {Absent}, out \in OptionOutputs :
          option(caller, <<"-", "t">>, <<"5">>, out)
    \/ \E caller \in {NoneVal, LabelX} \cup NodeVals(graph) :
          run_check(caller)
    \/ run_graph
    \/ run_compile
    \/ run_popen
    \/ \E code \in ExitCodes : process_exit(code)
    \/ \E data \in ProcOutputs : run_communicate(data)
    \/ run_poll

Spec == Init /\ [][Next]_vars

\* ------------------------------------------- specification of the compiler

\* Longest registry the compiler is applied to.
MaxGraphLen == 5

NumKind(g, kind) == Cardinality({i \in 1..Len(g) : g[i].kind = kind})

\* the nodes of a kind, in creation order
OfKind(g, kind) == SelectSeq(g, LAMBDA node : node.kind = kind)

\* Nodes the builders create: two inputs, an option, a one-input filter, a
\* two-input filter whose parameter value holds a ";", a global operation
\* whose argument holds a ";", an output of two labels (created twice, two
\* OutputNodes reference the same labels) and an output made from an empty
\* list of inputs.
PoolNodes ==
    {InputNode(<<"a">>, 0),
     InputNode(<<"b">>, 0),
     OptionNode(<<"-", "t">>, <<"5">>, <<<<"y">>>>),
     FilterNode(<<"s">>, Params1, <<<<"x">>>>, <<"y">>),
     FilterNode(<<"t">>, Params2, <<<<"x">>, <<"y">>>>, <<"x">>),
     GlobalNode(<<"c", ";">>, <<<<"x">>>>, <<<<"y">>, <<"x">>>>),
     OutputNode(<<"p">>, <<<<"x">>, <<"y">>>>),
     OutputNode(<<"q">>, <<>>)}

\* the index input() gives each InputNode: the number of inputs created before
Reindex(g) ==
    [i \in 1..Len(g) |->
        IF g[i].kind = "InputNode"
        THEN [g[i] EXCEPT !.index = NumKind(SubSeq(g, 1, i - 1), "InputNode")]
        ELSE g[i]]

Registries ==
    {Reindex(g) : g \in UNION {[1..n -> PoolNodes] : n \in 0..MaxGraphLen}}

InitCompile ==
    /\ graph \in Registries
    /\ count = NumKind(graph, "InputNode")
    /\ pc = "compile"
    /\ last = NoCall
    /\ graph0 = <<>>
    /\ count0 = 0
    /\ runGraph = Unset
    /\ command = Unset
    /\ proc = "none"
    /\ exitCode = 0
    /\ commOut = NoneBytes
    /\ commErr = NoneBytes

\* "_get_command_from_graph(s.graph())", lines 453-454 of run
compile ==
    /\ pc = "compile"
    /\ command' = IsSet(_get_command_from_graph(StreamGraph(graph), "ffmpeg"))
    /\ pc' = "compiled"
    /\ UNCHANGED <<graph, count, last, graph0, count0, runGraph, proc, exitCode,
                   commOut, commErr>>

NextCompile == compile

CompileSpec == InitCompile /\ [][NextCompile]_vars

\* ------------------------------------------------------------------ claims

Builders == {"input", "filter", "output", "arg", "option"}

LastNode == graph[Len(graph)]

\* the call returned (no exception) and appended one node
Appended == last.err = "" /\ Len(graph) = Len(graph0) + 1 /\ SubSeq(graph, 1, Len(graph0)) = graph0

\* C1: the k-th InputNode of the registry has index k-1; a successful input()
\* takes the index from the counter and then increments it; no other builder
\* call changes the counter
C1_InputIndex ==
    /\ \A i \in 1..Len(graph) :
          graph[i].kind = "InputNode" =>
              graph[i].index = NumKind(SubSeq(graph, 1, i - 1), "InputNode")
    /\ count = NumKind(graph, "InputNode")
    /\ (last.op = "input" /\ last.err = "") =>
          (LastNode.index = count0 /\ count = count0 + 1)
    /\ (last.op \in Builders \ {"input"}) => count = count0

C1_Witness ==
    /\ Len(graph) = 3
    /\ graph[1].kind = "InputNode"
    /\ graph[2].kind = "FilterNode"
    /\ graph[3].kind = "InputNode"
    /\ graph[3].index = 1
    /\ last.op = "input"

\* C4: run with a caller that is not an OutputNode raises
\* OutputNodeMissingInRun with the registry not read, nothing compiled, no
\* process started, and the registry and the counter as they were
C4_RunRejectsNonOutput ==
    (last.op = "run" /\ last.caller.t # "OutputNode") =>
        /\ pc = "idle"
        /\ last.err = "OutputNodeMissingInRun"
        /\ ~runGraph.set
        /\ ~command.set
        /\ proc = "none"
        /\ graph = graph0
        /\ count = count0

C4_Witness ==
    /\ last.op = "run"
    /\ last.caller.t = "FilterNode"
    /\ last.err = "OutputNodeMissingInRun"
    /\ Len(graph) >= 2

Recognized(v) ==
    \/ v.t \in {"InputNode", "OptionNode", "FilterNode", "GlobalNode", "Label"}
    \/ /\ v.t = "List"
       /\ \A i \in 1..Len(v.items) :
             v.items[i].t \in {"InputNode", "OptionNode", "FilterNode",
                               "GlobalNode", "Label"}

CallerPresent(v) == v.t \notin {"Absent", "None"}

\* C6: every builder rejects a present, unrecognized caller with TypeMissing
\* before a node is appended, and never rejects an absent or recognized
\* caller in the caller check
C6_CallerValidated ==
    last.op \in Builders =>
        /\ (CallerPresent(last.caller) /\ ~Recognized(last.caller)) =>
              (last.err = "TypeMissing" /\ graph = graph0)
        /\ (~CallerPresent(last.caller) \/ Recognized(last.caller)) =>
              last.at # "check"

\* C7: arg with no outputs appends a GlobalNode with exactly one output
\* label; with a list of k outputs, exactly those k labels in order
C7_ArgDefaultOutput ==
    (last.op = "arg" /\ AllOk(LabelResults(
            IF last.inputs.t # "None" THEN last.inputs ELSE last.caller))) =>
        /\ last.outputs.t = "None" =>
              (Appended /\ LastNode.kind = "GlobalNode" /\ Len(LastNode.outputs) = 1)
        /\ (last.outputs.t = "List" /\ AllOk(LabelResults(last.outputs))) =>
              /\ Appended
              /\ LastNode.kind = "GlobalNode"
              /\ LastNode.outputs = LabelsOf(LabelResults(last.outputs))

\* C8: option with no output appends exactly one OptionNode with the tag and
\* the name and leaves the input counter alone
C8_OptionOutputOptional ==
    (last.op = "option" /\ last.outputs.t = "None") =>
        /\ Appended
        /\ LastNode.kind = "OptionNode"
        /\ LastNode.tag = <<"-", "t">>
        /\ LastNode.name = last.name.lab
        /\ count = count0

\* ------------------------------------------------- claims on the compiler

OpenChunk == " -y -filter_complex \""

QuoteChunk == "\""

MapChunk == " -map \"["

FirstIndex(str, c) ==
    CHOOSE i \in 1..Len(str) : str[i] = c /\ \A j \in 1..(i - 1) : str[j] # c

\* the quoted filter-graph expression of a filter-path command
FilterGraphPart(cmd) ==
    SubSeq(cmd, FirstIndex(cmd, OpenChunk) + 1, FirstIndex(cmd, QuoteChunk) - 1)

\* what follows the closing quote
AfterQuote(cmd) == SubSeq(cmd, FirstIndex(cmd, QuoteChunk) + 1, Len(cmd))

FilterPath == command.set /\ NumKind(graph, "FilterNode") >= 1

\* C2: of the ";" of the statements of the FilterNodes and GlobalNodes,
\* the filter-graph expression lacks exactly one, the terminator of the last
\* FilterNode's statement, which is its last character
C2_OnlyTrailingSemicolonRemoved ==
    FilterPath =>
        LET fs == OfKind(graph, "FilterNode")
            gs == OfKind(graph, "GlobalNode")
            n  == Len(fs)
            stmt == get_str_from_filter(fs[n])
            fg == FilterGraphPart(command.val)
        IN  /\ CountChunk(fg, ";")
                  = SumSeq([k \in 1..n |-> CountChunk(get_str_from_filter(fs[k]), ";")])
                    + SumSeq([k \in 1..Len(gs) |->
                                CountChunk(get_str_from_global(gs[k]), ";")])
                    - 1
            /\ SubSeq(fg, Len(fg) - Len(stmt) + 2, Len(fg))
                  = SubSeq(stmt, 1, Len(stmt) - 1)

\* C3: with no FilterNode the command is ffmpeg, -y, one -i segment per
\* InputNode in creation order, one name segment per OutputNode in creation
\* order, and nothing else
C3_DirectPath ==
    (command.set /\ NumKind(graph, "FilterNode") = 0) =>
        LET ins  == OfKind(graph, "InputNode")
            outs == OfKind(graph, "OutputNode")
        IN  /\ command.val =
                  <<"ffmpeg", " -y">>
                  \o Join([k \in 1..Len(ins) |-> <<" -i ">> \o ins[k].name \o <<" ">>])
                  \o Join([k \in 1..Len(outs) |-> <<" ">> \o outs[k].name \o <<" ">>])
            /\ CountChunk(command.val, OpenChunk) = 0
            /\ CountChunk(command.val, MapChunk) = 0

C3_Witness ==
    /\ command.set
    /\ NumKind(graph, "FilterNode") = 0
    /\ NumKind(graph, "GlobalNode") >= 1
    /\ NumKind(graph, "OptionNode") >= 1
    /\ NumKind(graph, "InputNode") >= 2
    /\ NumKind(graph, "OutputNode") >= 1
    /\ graph[1].kind = "OutputNode"

\* C9: on the filter path, what follows the filter graph is, per OutputNode
\* in creation order and per input label in label order, -map "[label]" and
\* the node's name; the -map segments number the sum of the input-label
\* counts of all OutputNodes
C9_MapFanOut ==
    FilterPath =>
        LET outs == OfKind(graph, "OutputNode")
        IN  /\ AfterQuote(command.val) =
                  Join([k \in 1..Len(outs) |->
                          Join([j \in 1..Len(outs[k].inputs) |->
                                  <<MapChunk>> \o outs[k].inputs[j] \o <<"]\"">>
                                      \o <<" ">> \o outs[k].name \o <<" ">>])])
            /\ CountChunk(command.val, MapChunk)
                  = SumSeq([k \in 1..Len(outs) |-> Len(outs[k].inputs)])

C9_Witness ==
    /\ FilterPath
    /\ \E i, j, k \in 1..Len(graph) :
          /\ i # j
          /\ graph[i].kind = "OutputNode"
          /\ graph[j].kind = "OutputNode"
          /\ Len(graph[i].inputs) = 2
          /\ graph[j].inputs = graph[i].inputs
          /\ graph[k].kind = "OutputNode"
          /\ graph[k].inputs = <<>>
    /\ CountChunk(command.val, MapChunk) = 4

\* C10: on the filter path the command is the program name, the InputNodes,
\* the OptionNodes, the overwrite flag and the opening of the filter graph,
\* the FilterNodes but the last, the GlobalNodes, the last FilterNode, the
\* closing quote and the OutputNodes' map segments, each group in creation
\* order, each node of the registry once
C10_SegmentOrder ==
    FilterPath =>
        LET ins  == OfKind(graph, "InputNode")
            opts == OfKind(graph, "OptionNode")
            fs   == OfKind(graph, "FilterNode")
            gs   == OfKind(graph, "GlobalNode")
            outs == OfKind(graph, "OutputNode")
            n    == Len(fs)
        IN  /\ command.val =
                  <<"ffmpeg">>
                  \o Join([k \in 1..Len(ins) |-> InputSegment(ins[k])])
                  \o Join([k \in 1..Len(opts) |-> OptionSegment(opts[k])])
                  \o <<OpenChunk>>
                  \o Join([k \in 1..(n - 1) |-> get_str_from_filter(fs[k])])
                  \o Join([k \in 1..Len(gs) |-> get_str_from_global(gs[k])])
                  \o LastFilterStatement(fs[n])
                  \o <<QuoteChunk>>
                  \o Join([k \in 1..Len(outs) |-> MapSegments(outs[k])])
            /\ Len(ins) + Len(opts) + n + Len(gs) + Len(outs) = Len(graph)

C10_Witness ==
    /\ FilterPath
    /\ Len(graph) = 5
    /\ graph[1].kind = "OutputNode"
    /\ graph[2].kind = "GlobalNode"
    /\ graph[3].kind = "FilterNode"
    /\ graph[4].kind = "FilterNode"
    /\ graph[5].kind = "InputNode"
    /\ graph[3] # graph[4]

====
